---- MODULE Spec2Model ----
(***************************************************************************)
(* Model of git-stats.py: the ignored-commit resolver and the line         *)
(* accumulator of get_git_stats, and the author/repository loop of main    *)
(* that fills all_repos_stats and writes the CSV export.                   *)
(*                                                                         *)
(* Three specifications share the variables:                               *)
(*   SpecRes  - get_git_stats, lines 37-73  (ignored_changes is built)     *)
(*   SpecAcc  - get_git_stats, lines 101-155 (stats, date_stats)           *)
(*   SpecMain - main, lines 320-369 (all_repos_stats, CSV rows, totals)    *)
(***************************************************************************)
EXTENDS Integers, Sequences, FiniteSets, TLC

VARIABLES
    pc,               \* position of the modelled function
    ignore_commits,   \* list of commit hashes to ignore
    ic_idx,           \* index of the next hash of the loop at line 38
    ignored_changes,  \* file_path -> [added, removed]
    exclude_patterns, \* list of regular expressions
    consumed,         \* the lines of `git log --numstat` the loop has read
    current_date,     \* None or the date of the last date line
    stats,            \* [added, removed, total, commits]
    date_stats,       \* date -> [added, removed, total]
    authors,          \* list of author names
    valid_repos,      \* list of validated repository paths
    measured,         \* <<author, repo_path>> -> outcome of get_git_stats
    a_idx,            \* index of the author of the loop at line 330
    r_idx,            \* index of the repository of the loop at line 331
    all_repos_stats,  \* insertion-ordered dict: list of [name, stats]
    totals,           \* total_added, total_removed, total_net, total_commits
    csv               \* rows written to the export after the header

vars == <<pc, ignore_commits, ic_idx, ignored_changes, exclude_patterns,
          consumed, current_date, stats, date_stats, authors, valid_repos,
          measured, a_idx, r_idx, all_repos_stats, totals, csv>>

resVars == <<ignore_commits, ic_idx>>
accVars == <<exclude_patterns, consumed, current_date, stats, date_stats>>
mainVars == <<authors, valid_repos, measured, a_idx, r_idx, all_repos_stats,
              totals, csv>>

(***************************************************************************)
(* Bounds                                                                  *)
(***************************************************************************)
MaxLines == 3

MaxIgnore == 3

MaxRepos == 2

MaxAuthors == 2

(***************************************************************************)
(* Values                                                                  *)
(***************************************************************************)
None == "None"

EmptyDict == [x \in {} |-> 0]

Max0(x) == IF 0 > x THEN 0 ELSE x

\* int(): decimal text to integer
IntOf(s) ==
    CASE s = "0" -> 0
      [] s = "1" -> 1
      [] s = "2" -> 2
      [] s = "3" -> 3

\* the characters of the file paths and patterns used as inputs
Chars(s) ==
    CASE s = "a" -> <<"a">>
      [] s = "v/a" -> <<"v", "/", "a">>
      [] s = "a/v" -> <<"a", "/", "v">>
      [] s = "^v" -> <<"^", "v">>
      [] s = "v" -> <<"v">>
      [] s = "a.v" -> <<"a", ".", "v">>

\* the pattern characters p match the subject characters s at position i
MatchAt(p, s, i) ==
    /\ i + Len(p) - 1 <= Len(s)
    /\ \A k \in 1..Len(p) : p[k] = "." \/ p[k] = s[i + k - 1]

\* re.search(pattern, file_path) for patterns of literals, "." and a
\* leading "^"
re_search(pattern, file_path) ==
    LET p == Chars(pattern)
        s == Chars(file_path)
    IN  IF Len(p) > 0 /\ p[1] = "^"
        THEN MatchAt(Tail(p), s, 1)
        ELSE \E i \in 1..(Len(s) + 1) : MatchAt(p, s, i)

(***************************************************************************)
(* Output lines of git: a line is the list of its tab-separated fields;    *)
(* quoted is TRUE when the line starts and ends with a double quote, and   *)
(* the single field is then the text between the quotes.                   *)
(***************************************************************************)
Line(q, p) == [quoted |-> q, parts |-> p]

Dates == {"d1", "d2"}

Paths == {"a", "v/a", "a/v"}

Counts == {<<"2", "0">>, <<"0", "1">>, <<"3", "2">>}

DateLines == {Line(TRUE, <<d>>) : d \in Dates}

NumLines == {Line(FALSE, <<c[1], c[2], f>>) : c \in Counts, f \in Paths}

OtherLines == {Line(FALSE, <<"">>),
               Line(FALSE, <<"2", "0">>),
               Line(FALSE, <<"-", "-", "a">>)}

LogLines == DateLines \cup NumLines \cup OtherLines

(***************************************************************************)
(* get_git_stats, lines 37-73: the ignored changes                         *)
(***************************************************************************)
Hashes == {"h1", "h2", "h3", "h4"}

\* what `git show --numstat --pretty=format: <hash>` gives in the
\* repository: a return code and the output lines, or an exception
GitShow(commit_hash) ==
    CASE commit_hash = "h1" ->
           [raised |-> FALSE, returncode |-> 0,
            lines |-> <<Line(FALSE, <<"2", "0", "a">>),
                        Line(FALSE, <<"-", "-", "v/a">>),
                        Line(FALSE, <<"0", "1", "a/v">>)>>]
      [] commit_hash = "h2" ->
           [raised |-> FALSE, returncode |-> 0,
            lines |-> <<Line(FALSE, <<"1", "1", "a">>),
                        Line(FALSE, <<"">>),
                        Line(FALSE, <<"2", "0">>),
                        Line(FALSE, <<"0", "3", "v/a">>)>>]
      [] commit_hash = "h3" ->
           [raised |-> FALSE, returncode |-> 128, lines |-> <<>>]
      [] commit_hash = "h4" ->
           [raised |-> TRUE, returncode |-> 0, lines |-> <<>>]

\* lines 52-70: one line of the output of git show
IgnoredLine(table, line) ==
    IF line.parts = <<"">> THEN table
    ELSE IF Len(line.parts) # 3 THEN table
    ELSE LET added == line.parts[1]
             removed == line.parts[2]
             file_path == line.parts[3]
         IN  IF added = "-" \/ removed = "-" THEN table
             ELSE LET t == IF file_path \in DOMAIN table THEN table
                           ELSE (file_path :> [added |-> 0, removed |-> 0])
                                @@ table
                  IN  [t EXCEPT ![file_path] =
                          [added |-> @.added + IntOf(added),
                           removed |-> @.removed + IntOf(removed)]]

RECURSIVE IgnoredLines(_, _)
IgnoredLines(table, lines) ==
    IF lines = <<>> THEN table
    ELSE IgnoredLines(IgnoredLine(table, Head(lines)), Tail(lines))

\* a failed retrieval drops the entries accumulated so far
IgnoredCommitReset(table, commit_hash) ==
    LET ignored_result == GitShow(commit_hash)
    IN  IF ignored_result.raised THEN EmptyDict
        ELSE IF ignored_result.returncode # 0 THEN EmptyDict
        ELSE IgnoredLines(table, ignored_result.lines)

\* lines 39-73: one iteration of the loop over ignore_commits
IgnoredCommit(table, commit_hash) ==
    LET ignored_result == GitShow(commit_hash)
    IN  IF ignored_result.raised THEN table
        ELSE IF ignored_result.returncode # 0 THEN table
        ELSE IgnoredLines(table, ignored_result.lines)

\* lines 37-73 as a whole
RECURSIVE IgnoredChanges(_, _)
IgnoredChanges(table, commits) ==
    IF commits = <<>> THEN table
    ELSE IgnoredChanges(IgnoredCommit(table, Head(commits)), Tail(commits))

(***************************************************************************)
(* get_git_stats, lines 101-155: the accumulator                           *)
(***************************************************************************)
ZeroStats(commit_count) ==
    [added |-> 0, removed |-> 0, total |-> 0, commits |-> commit_count]

ZeroDate == [added |-> 0, removed |-> 0, total |-> 0]

\* every pattern has to match instead of any
ExcludedByAll(file_path, patterns) ==
    /\ patterns # <<>>
    /\ \A i \in 1..Len(patterns) : re_search(patterns[i], file_path)

\* line 129
Excluded(file_path, patterns) ==
    \E i \in 1..Len(patterns) : re_search(patterns[i], file_path)

\* the subtraction without the clamp of lines 141-142
AdjustedUnclamped(count, ignored) == count - ignored

\* lines 136-142: the count of a record less the ignored changes
Adjusted(count, ignored) == Max0(count - ignored)

adjusted_count(table, file_path, field, text) ==
    IF file_path \in DOMAIN table
    THEN Adjusted(IntOf(text), table[file_path][field])
    ELSE IntOf(text)

\* the change (added + removed) in place of the net change
NetChangeAsSum(added_count, removed_count) == added_count + removed_count

\* lines 147 and 153
NetChange(added_count, removed_count) == added_count - removed_count

\* lines 145-147 and 151-153
Accumulate(rec, added_count, removed_count) ==
    [rec EXCEPT !.added = @ + added_count,
                !.removed = @ + removed_count,
                !.total = @ + NetChange(added_count, removed_count)]

\* a date line that overwrites the bucket of a date seen before
DateLineOverwrite(st, line) ==
    LET d == line.parts[1]
    IN  [st EXCEPT !.current_date = d,
                   !.date_stats = (d :> ZeroDate) @@ @]

\* lines 106-111: a date line
DateLine(st, line) ==
    LET d == line.parts[1]
    IN  [st EXCEPT !.current_date = d,
                   !.date_stats = IF d \in DOMAIN st.date_stats
                                  THEN @
                                  ELSE (d :> ZeroDate) @@ @]

\* lines 150-153
AccumulateDate(dstats, date, added_count, removed_count) ==
    IF date # None /\ date # ""
    THEN [dstats EXCEPT ![date] = Accumulate(@, added_count, removed_count)]
    ELSE dstats

\* lines 105-153: the body of the loop over the lines
StatLine(st, line, table, patterns) ==
    IF line.quoted THEN DateLine(st, line)
    ELSE IF line.parts = <<"">> THEN st
    ELSE IF Len(line.parts) # 3 THEN st
    ELSE LET added == line.parts[1]
             removed == line.parts[2]
             file_path == line.parts[3]
         IN  IF added = "-" \/ removed = "-" THEN st
             ELSE IF Excluded(file_path, patterns) THEN st
             ELSE LET added_count ==
                          adjusted_count(table, file_path, "added", added)
                      removed_count ==
                          adjusted_count(table, file_path, "removed", removed)
                  IN  [st EXCEPT
                         !.stats = Accumulate(@, added_count, removed_count),
                         !.date_stats = AccumulateDate(@, st.current_date,
                                            added_count, removed_count)]

InitAccState(commit_count) ==
    [stats |-> ZeroStats(commit_count), date_stats |-> EmptyDict,
     current_date |-> None]

RECURSIVE StatLines(_, _, _, _)
StatLines(st, lines, table, patterns) ==
    IF lines = <<>> THEN st
    ELSE StatLines(StatLine(st, Head(lines), table, patterns), Tail(lines),
                   table, patterns)

AccState == [stats |-> stats, date_stats |-> date_stats,
             current_date |-> current_date]

\* the ignore lists and pattern lists the accumulator is run with
AccIgnoreLists == {<<>>, <<"h1">>, <<"h2", "h3">>, <<"h1", "h2">>}

AccPatternLists == {<<>>, <<"^v">>, <<"^v", "a.v">>}

CommitCounts == {0, 1}

\* a local variable of main that no assignment has bound yet
Unbound == [bound |-> FALSE]

\* idle values of the variables a specification does not use
IdleRes == ignore_commits = <<>> /\ ic_idx = 1

IdleAcc ==
    /\ exclude_patterns = <<>>
    /\ consumed = <<>>
    /\ current_date = None
    /\ stats = ZeroStats(0)
    /\ date_stats = EmptyDict

IdleMain ==
    /\ authors = <<>>
    /\ valid_repos = <<>>
    /\ measured = EmptyDict
    /\ a_idx = 1
    /\ r_idx = 1
    /\ all_repos_stats = <<>>
    /\ totals = Unbound
    /\ csv = <<>>

InitAcc ==
    /\ pc = "lines"
    /\ \E l \in AccIgnoreLists : ignored_changes = IgnoredChanges(EmptyDict, l)
    /\ exclude_patterns \in AccPatternLists
    /\ consumed = <<>>
    /\ current_date = None
    /\ \E c \in CommitCounts : stats = ZeroStats(c)
    /\ date_stats = EmptyDict
    /\ IdleRes
    /\ IdleMain

\* one iteration of the loop at line 105
ReadLine ==
    /\ pc = "lines"
    /\ Len(consumed) < MaxLines
    /\ \E line \in LogLines :
          LET st == StatLine(AccState, line, ignored_changes, exclude_patterns)
          IN  /\ consumed' = Append(consumed, line)
              /\ stats' = st.stats
              /\ date_stats' = st.date_stats
              /\ current_date' = st.current_date
    /\ UNCHANGED <<pc, ignored_changes, exclude_patterns, resVars, mainVars>>

\* line 155
ReturnStats ==
    /\ pc = "lines"
    /\ pc' = "returned"
    /\ UNCHANGED <<ignored_changes, accVars, resVars, mainVars>>

NextAcc == ReadLine \/ ReturnStats

SpecAcc == InitAcc /\ [][NextAcc]_vars

(***************************************************************************)
(* get_git_stats, lines 37-73 as a state machine                           *)
(***************************************************************************)
RECURSIVE SeqsUpTo(_, _)
SeqsUpTo(S, n) ==
    IF n = 0 THEN {<<>>}
    ELSE LET shorter == SeqsUpTo(S, n - 1)
         IN  shorter \cup {Append(q, x) : q \in shorter, x \in S}

InitRes ==
    /\ pc = "ignored"
    /\ ignore_commits \in SeqsUpTo(Hashes, MaxIgnore)
    /\ ic_idx = 1
    /\ ignored_changes = EmptyDict
    /\ IdleAcc
    /\ IdleMain

\* lines 38-73: one commit hash of the ignore list
IgnoreCommit ==
    /\ pc = "ignored"
    /\ ic_idx <= Len(ignore_commits)
    /\ ignored_changes' = IgnoredCommit(ignored_changes, ignore_commits[ic_idx])
    /\ ic_idx' = ic_idx + 1
    /\ UNCHANGED <<pc, ignore_commits, accVars, mainVars>>

\* the loop at line 38 is over: go on to count the commits (line 75)
IgnoreDone ==
    /\ pc = "ignored"
    /\ ic_idx > Len(ignore_commits)
    /\ pc' = "count"
    /\ UNCHANGED <<ignored_changes, resVars, accVars, mainVars>>

NextRes == IgnoreCommit \/ IgnoreDone

SpecRes == InitRes /\ [][NextRes]_vars

(***************************************************************************)
(* Properties of get_git_stats                                             *)
(***************************************************************************)
RECURSIVE SumSeq(_)
SumSeq(q) == IF q = <<>> THEN 0 ELSE Head(q) + SumSeq(Tail(q))

MaxOf(S) == CHOOSE x \in S : \A y \in S : y <= x

\* a line with three fields, none of them the binary marker
IsNumeric(line) ==
    /\ ~line.quoted
    /\ Len(line.parts) = 3
    /\ line.parts[1] # "-"
    /\ line.parts[2] # "-"

\* a line with three fields whose path some exclusion pattern finds
IsMatched(line) ==
    /\ ~line.quoted
    /\ Len(line.parts) = 3
    /\ \E i \in 1..Len(exclude_patterns) :
          re_search(exclude_patterns[i], line.parts[3])

\* the records that take part in the statistics
IsCounted(line) == IsNumeric(line) /\ ~IsMatched(line)

FieldNo(field) == IF field = "added" THEN 1 ELSE 2

IgnoredOf(file_path, field) ==
    IF file_path \in DOMAIN ignored_changes
    THEN ignored_changes[file_path][field]
    ELSE 0

\* sum of a field of the counted records of one file, as git reports them
RawOfFile(file_path, field) ==
    SumSeq([i \in 1..Len(consumed) |->
              IF IsCounted(consumed[i]) /\ consumed[i].parts[3] = file_path
              THEN IntOf(consumed[i].parts[FieldNo(field)])
              ELSE 0])

RECURSIVE SumPerFile(_, _)
SumPerFile(files, field) ==
    IF files = {} THEN 0
    ELSE LET f == CHOOSE x \in files : TRUE
         IN  Max0(RawOfFile(f, field) - IgnoredOf(f, field))
             + SumPerFile(files \ {f}, field)

\* C5: the ignored changes of a file are taken off the file's total once:
\* added (removed) is the sum over the files of
\* max(0, raw of the file - ignored of the file)
C5_PerFileSubtraction ==
    /\ stats.added = SumPerFile(Paths, "added")
    /\ stats.removed = SumPerFile(Paths, "removed")

\* the counts of record i as the accumulator adds them
AdjustedAt(i, field) ==
    adjusted_count(ignored_changes, consumed[i].parts[3], field,
                   consumed[i].parts[FieldNo(field)])

CountedIdx == {i \in 1..Len(consumed) : IsCounted(consumed[i])}

\* C6: every record's adjusted added and removed are >= 0, and so are
\* the added and removed of RepoStats and of every DateStats bucket, after
\* any prefix of the stream
C6_ZeroFloor ==
    /\ \A i \in CountedIdx :
          AdjustedAt(i, "added") >= 0 /\ AdjustedAt(i, "removed") >= 0
    /\ stats.added >= 0
    /\ stats.removed >= 0
    /\ \A d \in DOMAIN date_stats :
          date_stats[d].added >= 0 /\ date_stats[d].removed >= 0

\* a record whose ignored changes exceed its own counts has been accumulated
C6_Witness ==
    \E i \in CountedIdx :
        /\ IgnoredOf(consumed[i].parts[3], "added")
              > IntOf(consumed[i].parts[1])
        /\ current_date # None
        /\ \E j \in CountedIdx : AdjustedAt(j, "removed") > 0

\* C7: after any prefix of the stream total = added - removed, in RepoStats
\* and in every DateStats bucket
C7_Conservation ==
    /\ stats.total = stats.added - stats.removed
    /\ \A d \in DOMAIN date_stats :
          date_stats[d].total = date_stats[d].added - date_stats[d].removed

\* records of an ignored file and of an excluded file were read, and both
\* added and removed lines were accumulated under a date
C7_Witness ==
    /\ \E i \in CountedIdx : consumed[i].parts[3] \in DOMAIN ignored_changes
    /\ \E i \in 1..Len(consumed) : IsMatched(consumed[i])
    /\ \E d \in DOMAIN date_stats :
          date_stats[d].added > 0 /\ date_stats[d].removed > 0
    /\ stats.removed > 0

\* the stream without the records an exclusion pattern matches
RECURSIVE WithoutMatched(_)
WithoutMatched(lines) ==
    IF lines = <<>> THEN <<>>
    ELSE IF IsMatched(Head(lines)) THEN WithoutMatched(Tail(lines))
    ELSE <<Head(lines)>> \o WithoutMatched(Tail(lines))

\* C8: RepoStats and DateStats after the stream are those of the same
\* stream with the records matched by an exclusion pattern removed
C8_ExclusionCorrectness ==
    AccState = StatLines(InitAccState(stats.commits), WithoutMatched(consumed),
                         ignored_changes, exclude_patterns)

\* a matched record with non-zero counts of an ignored file was read after
\* a date, next to a record that was accumulated
C8_Witness ==
    /\ \E i \in 1..Len(consumed) :
          /\ IsMatched(consumed[i])
          /\ IsNumeric(consumed[i])
          /\ consumed[i].parts[3] \in DOMAIN ignored_changes
          /\ \E j \in 1..(i - 1) : consumed[j].quoted
    /\ stats.added > 0
    /\ Len(exclude_patterns) > 1

\* the date of the last date line before line i, None when there is none
DateAt(i) ==
    LET J == {j \in 1..(i - 1) : consumed[j].quoted}
    IN  IF J = {} THEN None ELSE consumed[MaxOf(J)].parts[1]

SumAdjusted(I, field) ==
    SumSeq([i \in 1..Len(consumed) |->
              IF i \in I THEN AdjustedAt(i, field) ELSE 0])

SumsOf(I) ==
    [added |-> SumAdjusted(I, "added"),
     removed |-> SumAdjusted(I, "removed"),
     total |-> SumAdjusted(I, "added") - SumAdjusted(I, "removed")]

DatesSeen == {consumed[j].parts[1] : j \in {k \in 1..Len(consumed) : consumed[k].quoted}}

DateStatsByLastDate ==
    /\ DOMAIN date_stats = DatesSeen
    /\ \A d \in DatesSeen :
          date_stats[d] = SumsOf({i \in CountedIdx : DateAt(i) = d})

RepoStatsOf(I) ==
    /\ stats.added = SumsOf(I).added
    /\ stats.removed = SumsOf(I).removed
    /\ stats.total = SumsOf(I).total

\* C9 as stated: a stat line before any date line adds nothing to
\* RepoStats and nothing to DateStats; only the stat lines after a date
\* line are accumulated, under the last date seen
C9_UndatedSkipped ==
    /\ RepoStatsOf({i \in CountedIdx : DateAt(i) # None})
    /\ DateStatsByLastDate

\* C9 amended: a stat line before any date line adds nothing to DateStats
\* but is accumulated in RepoStats like every other stat line; the stat
\* lines after a date line are also accumulated in DateStats, under the last
\* date seen
C9_UndatedInRepoStatsOnly ==
    /\ RepoStatsOf(CountedIdx)
    /\ DateStatsByLastDate

\* a counted record came before any date line, another one after a date
\* line that repeats an earlier date or follows another one
C9_Witness ==
    /\ \E i \in CountedIdx : DateAt(i) = None /\ AdjustedAt(i, "added") > 0
    /\ \E i \in CountedIdx : DateAt(i) # None /\ AdjustedAt(i, "added") > 0
    /\ pc = "returned"

\* a commit that git show can give
Retrievable(h) == ~GitShow(h).raised /\ GitShow(h).returncode = 0

\* sum of a field of the non-binary lines of one file in one commit
InCommit(h, file_path, field) ==
    LET lines == GitShow(h).lines
    IN  SumSeq([k \in 1..Len(lines) |->
                  IF IsNumeric(lines[k]) /\ lines[k].parts[3] = file_path
                  THEN IntOf(lines[k].parts[FieldNo(field)])
                  ELSE 0])

FilesIn(h) ==
    LET lines == GitShow(h).lines
    IN  {lines[k].parts[3] : k \in {n \in 1..Len(lines) : IsNumeric(lines[n])}}

OverCommits(commits, file_path, field) ==
    SumSeq([i \in 1..Len(commits) |->
              IF Retrievable(commits[i])
              THEN InCommit(commits[i], file_path, field)
              ELSE 0])

\* the table the listed commits stand for
SumTable(commits) ==
    LET files == UNION {FilesIn(commits[i]) :
                          i \in {n \in 1..Len(commits) : Retrievable(commits[n])}}
    IN  [f \in files |-> [added |-> OverCommits(commits, f, "added"),
                          removed |-> OverCommits(commits, f, "removed")]]

Perms(q) ==
    {[i \in 1..Len(q) |-> q[f[i]]] :
        f \in {g \in [1..Len(q) -> 1..Len(q)] :
                 \A i, j \in 1..Len(q) : g[i] = g[j] => i = j}}

\* C10: the table is, per file, the sum of the non-binary added and removed
\* counts over the listed commits that can be retrieved, after every commit
\* of the list (a commit that cannot be retrieved changes nothing), and
\* every permutation of the list gives the same table
C10_IgnoredTable ==
    /\ ignored_changes = SumTable(SubSeq(ignore_commits, 1, ic_idx - 1))
    /\ pc = "count" =>
          \A p \in Perms(ignore_commits) :
              IgnoredChanges(EmptyDict, p) = ignored_changes

\* a commit that cannot be retrieved stood between two commits that change
\* the same file
C10_Witness ==
    /\ pc = "count"
    /\ \E i, j, k \in 1..Len(ignore_commits) :
          /\ i < j /\ j < k
          /\ Retrievable(ignore_commits[i])
          /\ ~Retrievable(ignore_commits[j])
          /\ Retrievable(ignore_commits[k])
          /\ ignore_commits[i] # ignore_commits[k]
          /\ FilesIn(ignore_commits[i]) \cap FilesIn(ignore_commits[k]) # {}

(***************************************************************************)
(* main, lines 320-369: the loop over authors and repositories and the CSV *)
(***************************************************************************)
AuthorNames == {"alice", "bob"}

RepoPaths == {"/a/x", "/b/x", "/a/y"}

\* os.path.basename
basename(repo_path) ==
    CASE repo_path = "/a/x" -> "x"
      [] repo_path = "/b/x" -> "x"
      [] repo_path = "/a/y" -> "y"

RepoStats(a, r, c) ==
    [added |-> a, removed |-> r, total |-> a - r, commits |-> c]

\* what get_git_stats does for one author in one repository: it raises, or
\* it returns statistics (date_stats is not used by main)
Outcomes ==
    {[raised |-> TRUE]}
    \cup {[raised |-> FALSE, stats |-> st] :
            st \in {RepoStats(0, 0, 1), RepoStats(1, 0, 1), RepoStats(0, 2, 2)}}

NoRepeat(q) == \A i, j \in 1..Len(q) : q[i] = q[j] => i = j

\* all_repos_stats[repo_name] = stats on a dict that keeps insertion order
DictSet(dict, key, value) ==
    IF \E i \in 1..Len(dict) : dict[i].name = key
    THEN [i \in 1..Len(dict) |->
            IF dict[i].name = key THEN [name |-> key, stats |-> value]
            ELSE dict[i]]
    ELSE Append(dict, [name |-> key, stats |-> value])

\* lines 332-354: one repository for one author
ProcessRepoStats(dict, outcome, repo_path) ==
    LET repo_name == basename(repo_path)
    IN  IF outcome.raised THEN dict
        ELSE IF outcome.stats.added > 0 \/ outcome.stats.removed > 0
        THEN DictSet(dict, repo_name, outcome.stats)
        ELSE dict

\* lines 357-358: the rows of one author
AuthorRows(author, dict) ==
    [i \in 1..Len(dict) |->
        [kind |-> "row",
         cells |-> <<author, dict[i].name, dict[i].stats.added,
                     dict[i].stats.removed, dict[i].stats.total,
                     dict[i].stats.commits>>]]

SumField(dict, field) ==
    SumSeq([i \in 1..Len(dict) |-> dict[i].stats[field]])

\* lines 361-364
AuthorTotals(dict) ==
    [bound |-> TRUE,
     total_added |-> SumField(dict, "added"),
     total_removed |-> SumField(dict, "removed"),
     total_net |-> SumField(dict, "total"),
     total_commits |-> SumField(dict, "commits")]

\* lines 366-368: the two closing rows
TotalRows(t) ==
    LET total_change == t.total_added + t.total_removed
    IN  <<[kind |-> "total_header",
           cells |-> <<"TOTAL", "TOTAL ADDED", "TOTAL REMOVED", "TOTAL NET",
                       "TOTAL CHANGE", "TOTALL COMMITS">>],
          [kind |-> "total",
           cells |-> <<"TOTAL", t.total_added, t.total_removed, t.total_net,
                       total_change, t.total_commits>>]>>

InitMain ==
    /\ pc = "repos"
    /\ authors \in {q \in SeqsUpTo(AuthorNames, MaxAuthors) :
                      q # <<>> /\ NoRepeat(q)}
    /\ valid_repos \in {q \in SeqsUpTo(RepoPaths, MaxRepos) :
                          q # <<>> /\ NoRepeat(q)}
    /\ measured \in [AuthorNames \X RepoPaths -> Outcomes]
    /\ a_idx = 1
    /\ r_idx = 1
    /\ all_repos_stats = <<>>
    /\ totals = Unbound
    /\ csv = <<>>
    /\ ignored_changes = EmptyDict
    /\ IdleRes
    /\ IdleAcc

\* lines 331-354: the next repository of the current author
ProcessRepo ==
    /\ pc = "repos"
    /\ a_idx <= Len(authors)
    /\ r_idx <= Len(valid_repos)
    /\ all_repos_stats' =
          ProcessRepoStats(all_repos_stats,
                           measured[<<authors[a_idx], valid_repos[r_idx]>>],
                           valid_repos[r_idx])
    /\ r_idx' = r_idx + 1
    /\ UNCHANGED <<pc, authors, valid_repos, measured, a_idx, totals, csv,
                   ignored_changes, resVars, accVars>>

\* lines 356-364: the repositories of the current author are done
WriteAuthor ==
    /\ pc = "repos"
    /\ a_idx <= Len(authors)
    /\ r_idx > Len(valid_repos)
    /\ IF all_repos_stats # <<>>
       THEN /\ csv' = csv \o AuthorRows(authors[a_idx], all_repos_stats)
            /\ totals' = AuthorTotals(all_repos_stats)
       ELSE UNCHANGED <<csv, totals>>
    /\ a_idx' = a_idx + 1
    /\ r_idx' = 1
    /\ UNCHANGED <<pc, authors, valid_repos, measured, all_repos_stats,
                   ignored_changes, resVars, accVars>>

\* lines 366-369: the closing rows; total_added is read at line 366 and is
\* bound only if line 361 ran (UnboundLocalError otherwise)
WriteTotal ==
    /\ pc = "repos"
    /\ a_idx > Len(authors)
    /\ IF totals.bound
       THEN /\ csv' = csv \o TotalRows(totals)
            /\ pc' = "exported"
       ELSE /\ csv' = csv
            /\ pc' = "raised"
    /\ UNCHANGED <<authors, valid_repos, measured, a_idx, r_idx,
                   all_repos_stats, totals, ignored_changes, resVars, accVars>>

NextMain == ProcessRepo \/ WriteAuthor \/ WriteTotal

SpecMain == InitMain /\ [][NextMain]_vars

\* lines 330-364 as a whole: the totals after all authors
RECURSIVE ReposOf(_, _, _)
ReposOf(dict, author, repos) ==
    IF repos = <<>> THEN dict
    ELSE ReposOf(ProcessRepoStats(dict, measured[<<author, Head(repos)>>],
                                  Head(repos)),
                 author, Tail(repos))

RECURSIVE TotalsOf(_, _, _, _)
TotalsOf(dict, t, auths, repos) ==
    IF auths = <<>> THEN t
    ELSE LET d == ReposOf(dict, Head(auths), repos)
         IN  TotalsOf(d, IF d # <<>> THEN AuthorTotals(d) ELSE t,
                      Tail(auths), repos)

(***************************************************************************)
(* Properties of main                                                      *)
(***************************************************************************)
\* author a has contributions in the repository at position i
Included(a, i) ==
    LET o == measured[<<authors[a], valid_repos[i]>>]
    IN  ~o.raised /\ (o.stats.added > 0 \/ o.stats.removed > 0)

\* C1: a row is written for (author, repository) only if the statistics
\* measured for that author in that repository have added > 0 or removed > 0
C1_InclusionFilter ==
    \A k \in 1..Len(csv) :
        csv[k].kind = "row" =>
            \E a \in 1..Len(authors), i \in 1..Len(valid_repos) :
                /\ authors[a] = csv[k].cells[1]
                /\ basename(valid_repos[i]) = csv[k].cells[2]
                /\ Included(a, i)

SumIncluded(field) ==
    SumSeq([n \in 1..(Len(authors) * Len(valid_repos)) |->
              LET a == ((n - 1) \div Len(valid_repos)) + 1
                  i == ((n - 1) % Len(valid_repos)) + 1
              IN  IF Included(a, i)
                  THEN measured[<<authors[a], valid_repos[i]>>].stats[field]
                  ELSE 0])

\* C2: the final row holds the sums of added, removed and commits over
\* every included (author, repository) pair, each counted once, with
\* net = added - removed and change = added + removed
C2_GrandTotals ==
    pc = "exported" =>
        csv[Len(csv)].cells =
            <<"TOTAL", SumIncluded("added"), SumIncluded("removed"),
              SumIncluded("added") - SumIncluded("removed"),
              SumIncluded("added") + SumIncluded("removed"),
              SumIncluded("commits")>>

\* C3: every permutation of the list of valid repositories gives the same
\* grand totals
C3_Commutativity ==
    pc = "exported" =>
        \A p \in Perms(valid_repos) :
            TotalsOf(<<>>, Unbound, authors, p) = totals

\* C4: a run with at least one valid repository ends normally with the
\* final grand-total row written, whatever the outcome of each pair
C4_FinalRowWritten ==
    pc # "repos" =>
        /\ pc = "exported"
        /\ csv # <<>>
        /\ csv[Len(csv)].kind = "total"

====
